---- MODULE Spec2Model ----
(***************************************************************************)
(* Model of the Portfolio Manager CSV import client:                       *)
(*   - PortfolioManagerImporter.create_property_xml  (the encoder)         *)
(*   - PortfolioManagerImporter.get_account_id / create_property /         *)
(*     import_from_csv                                 (the batch import)  *)
(*   - PortfolioManagerUtils.validate_csv              (the validator)     *)
(* The three entry points are called from the idle state reached after     *)
(* construction; the program is single-threaded, so one call runs at a     *)
(* time.                                                                   *)
(***************************************************************************)
EXTENDS Integers, Sequences, FiniteSets, TLC

\* ------------------------------------------------------------------------
\* Bounds of the model
\* ------------------------------------------------------------------------

\* longest CSV handed to import_from_csv
MaxRows == 3

\* longest CSV handed to validate_csv
MaxTableRows == 2

\* ------------------------------------------------------------------------
\* Python values held in a CSV cell or a property_data entry
\* ------------------------------------------------------------------------

\* a str
StrV(x) == [t |-> "str", s |-> x, n |-> 0]

\* an int
IntV(k) == [t |-> "int", s |-> "", n |-> k]

\* a float with an integral value (pandas turns an int column that has an
\* empty cell into floats)
FloatV(k) == [t |-> "float", s |-> "", n |-> k]

\* a bool
BoolV(b) == [t |-> "bool", s |-> "", n |-> IF b THEN 1 ELSE 0]

\* float('nan'), what pandas stores for an empty cell
NaN == [t |-> "nan", s |-> "", n |-> 0]

\* None
None == [t |-> "none", s |-> "", n |-> 0]

\* marks a key that a generated record does not have (never a dict value)
Absent == [t |-> "absent", s |-> "", n |-> 0]

Digit(d) ==
    CASE d = 0 -> "0" [] d = 1 -> "1" [] d = 2 -> "2" [] d = 3 -> "3"
      [] d = 4 -> "4" [] d = 5 -> "5" [] d = 6 -> "6" [] d = 7 -> "7"
      [] d = 8 -> "8" [] d = 9 -> "9"

RECURSIVE NatToStr(_)
NatToStr(k) == IF k < 10 THEN Digit(k) ELSE NatToStr(k \div 10) \o Digit(k % 10)

IntToStr(k) == IF k < 0 THEN "-" \o NatToStr(0 - k) ELSE NatToStr(k)

\* str(v)
Str(v) ==
    CASE v.t = "str" -> v.s
      [] v.t = "int" -> IntToStr(v.n)
      [] v.t = "float" -> IntToStr(v.n) \o ".0"
      [] v.t = "bool" -> (IF v.n = 1 THEN "True" ELSE "False")
      [] v.t = "nan" -> "nan"
      [] v.t = "none" -> "None"

\* s.lower(), on the strings the model's records hold
Lower(s) ==
    CASE s = "True" -> "true"
      [] s = "False" -> "false"
      [] s = "TRUE" -> "true"
      [] s = "FALSE" -> "false"
      [] s = "Yes" -> "yes"
      [] s = "None" -> "none"
      [] OTHER -> s

\* bool(v): Python truthiness
Truthy(v) ==
    CASE v.t = "str" -> v.s /= ""
      [] v.t = "int" -> v.n /= 0
      [] v.t = "float" -> v.n /= 0
      [] v.t = "bool" -> v.n = 1
      [] v.t = "nan" -> TRUE
      [] v.t = "none" -> FALSE

\* pd.notna(v)
NotNa(v) == v.t \notin {"nan", "none"}

\* d.get(k, default)
Get(d, k, default) == IF k \in DOMAIN d THEN d[k] ELSE default

\* d with d[k] = v
Put(d, k, v) == [x \in (DOMAIN d) \cup {k} |-> IF x = k THEN v ELSE d[x]]

\* d with d[k] = v unless v marks an absent key
Opt(d, k, v) == IF v = Absent THEN d ELSE Put(d, k, v)

\* the dict with no key
EmptyDict == [x \in {} |-> None]

\* ------------------------------------------------------------------------
\* create_property_xml: property_data -> XML document
\* ------------------------------------------------------------------------

\* ET.Element / ET.SubElement: tag, text, attributes in insertion order,
\* children in insertion order
Elem(tag, text, attrs, children) ==
    [tag |-> tag, text |-> text, attrs |-> attrs, children |-> children]

\* the required address attributes (address_elem.set, in order)
AddressAttrs(d) ==
    << <<"address1", Str(Get(d, "address1", StrV("")))>>,
       <<"city", Str(Get(d, "city", StrV("")))>>,
       <<"state", Str(Get(d, "state", StrV("")))>>,
       <<"postalCode", Str(Get(d, "postalCode", StrV("")))>>,
       <<"country", Str(Get(d, "country", StrV("US")))>> >>

\* if property_data.get('address2'): address_elem.set('address2', ...)
Address2Attrs(d) ==
    IF Truthy(Get(d, "address2", None))
    THEN << <<"address2", Str(d["address2"])>> >>
    ELSE << >>

\* if property_data.get('yearBuilt'): SubElement yearBuilt
YearBuiltElems(d) ==
    IF Truthy(Get(d, "yearBuilt", None))
    THEN << Elem("yearBuilt", Str(d["yearBuilt"]), << >>, << >>) >>
    ELSE << >>

ConstructionStatusElem(d) ==
    Elem("constructionStatus", Str(Get(d, "constructionStatus", StrV("Existing"))),
         << >>, << >>)

GrossFloorAreaElem(d) ==
    Elem("grossFloorArea", "",
         << <<"temporary", Lower(Str(Get(d, "gfaTemporary", StrV("false"))))>>,
            <<"units", Str(Get(d, "gfaUnits", StrV("Square Feet")))>> >>,
         << Elem("value", Str(Get(d, "grossFloorArea", StrV(""))), << >>, << >>) >>)

\* if property_data.get('occupancyPercentage'): SubElement occupancyPercentage
OccupancyElems(d) ==
    IF Truthy(Get(d, "occupancyPercentage", None))
    THEN << Elem("occupancyPercentage", Str(d["occupancyPercentage"]), << >>, << >>) >>
    ELSE << >>

IsFederalElem(d) ==
    Elem("isFederalProperty", Lower(Str(Get(d, "isFederalProperty", StrV("false")))),
         << >>, << >>)

\* if property_data.get('notes'): SubElement notes with the literal CDATA marker
NotesElems(d) ==
    IF Truthy(Get(d, "notes", None))
    THEN << Elem("notes", "<![CDATA[" \o Str(d["notes"]) \o "]]>", << >>, << >>) >>
    ELSE << >>

\* IsCanadianInstitutional without the country test
IsInstitutionalAnyCountry(d) ==
    Truthy(Get(d, "isInstitutionalProperty", None))

\* the condition guarding the Canada-only element
IsCanadianInstitutional(d) ==
    /\ Get(d, "country", StrV("US")) = StrV("CA")
    /\ Truthy(Get(d, "isInstitutionalProperty", None))

\* InstitutionalElems without the .lower()
InstitutionalElemsNoLower(d) ==
    IF IsCanadianInstitutional(d)
    THEN << Elem("isInstitutionalProperty", Str(d["isInstitutionalProperty"]),
                 << >>, << >>) >>
    ELSE << >>

InstitutionalElems(d) ==
    IF IsCanadianInstitutional(d)
    THEN << Elem("isInstitutionalProperty", Lower(Str(d["isInstitutionalProperty"])),
                 << >>, << >>) >>
    ELSE << >>

\* the XML declaration the document starts with
XmlDeclaration == "<?xml version=\"1.0\" encoding=\"UTF-8\"?>\n"

\* the document returned: the declaration followed by the serialized tree
create_property_xml(d) ==
    [decl |-> XmlDeclaration,
     root |-> Elem("property", "", << >>,
                << Elem("name", Str(Get(d, "name", StrV(""))), << >>, << >>),
                   Elem("primaryFunction", Str(Get(d, "primaryFunction", StrV("Office"))),
                        << >>, << >>),
                   Elem("address", "", AddressAttrs(d) \o Address2Attrs(d), << >>) >>
                \o YearBuiltElems(d)
                \o << ConstructionStatusElem(d), GrossFloorAreaElem(d) >>
                \o OccupancyElems(d)
                \o << IsFederalElem(d) >>
                \o NotesElems(d)
                \o InstitutionalElems(d))]

\* the document before any call has produced one
NoDocument == [decl |-> "", root |-> Elem("", "", << >>, << >>)]

\* ------------------------------------------------------------------------
\* State
\* ------------------------------------------------------------------------

VARIABLES
    pc,                  \* position of the running call ("idle": none running)
    property_data,       \* the dict handed to create_property_xml
    xml_string,          \* the document create_property_xml returned
    csv_file,            \* import_from_csv: the file named by csv_file_path
    df,                  \* import_from_csv: the rows read from the file
    account_id,          \* import_from_csv: what get_account_id returned
    idx,                 \* import_from_csv: index of the row being processed
    results,             \* import_from_csv: the results list
    requests,            \* HTTP requests issued so far, in order
    responses,           \* the outcome of each answered request, in order
    in_flight,           \* HTTP requests sent and not yet answered
    sleeps,              \* time.sleep calls made so far
    ret,                 \* import_from_csv: the list returned
    table,               \* validate_csv: the file named by csv_file
    validation_results   \* validate_csv: the report being built / returned

vars == <<pc, property_data, xml_string, csv_file, df, account_id, idx, results,
          requests, responses, in_flight, sleeps, ret, table, validation_results>>

encoderVars == <<property_data, xml_string>>

importVars == <<csv_file, df, account_id, idx, results, requests, responses, in_flight,
                sleeps, ret>>

validateVars == <<table, validation_results>>

\* ------------------------------------------------------------------------
\* The CSV files handed to import_from_csv
\* ------------------------------------------------------------------------

\* the columns of the import CSV (required and optional columns)
ImportColumns ==
    {"name", "primaryFunction", "address1", "address2", "city", "state",
     "postalCode", "country", "yearBuilt", "constructionStatus",
     "grossFloorArea", "gfaUnits", "gfaTemporary", "occupancyPercentage",
     "isFederalProperty", "notes", "isInstitutionalProperty"}

\* the fields create_property_xml fills with a default when the key is absent
DefaultEligible ==
    {"constructionStatus", "country", "gfaUnits", "gfaTemporary", "isFederalProperty"}

\* a row with every cell filled except the Canada-only flag
FullRow(i) ==
    [c \in ImportColumns |->
        CASE c = "name" -> StrV("Property " \o IntToStr(i))
          [] c = "primaryFunction" -> StrV("Office")
          [] c = "address1" -> StrV("123 Main Street")
          [] c = "address2" -> StrV("Suite 100")
          [] c = "city" -> StrV("Washington")
          [] c = "state" -> StrV("DC")
          [] c = "postalCode" -> IntV(20001)
          [] c = "country" -> StrV("US")
          [] c = "yearBuilt" -> FloatV(2005)
          [] c = "constructionStatus" -> StrV("Test")
          [] c = "grossFloorArea" -> IntV(50000)
          [] c = "gfaUnits" -> StrV("Square Meters")
          [] c = "gfaTemporary" -> BoolV(TRUE)
          [] c = "occupancyPercentage" -> FloatV(85)
          [] c = "isFederalProperty" -> StrV("TRUE")
          [] c = "notes" -> StrV("Headquarters building")
          [] OTHER -> NaN]

\* a row with the required cells filled and every other cell empty
SparseRow(i) ==
    [c \in ImportColumns |->
        CASE c = "name" -> StrV("Property " \o IntToStr(i))
          [] c = "primaryFunction" -> StrV("Retail Store")
          [] c = "address1" -> StrV("789 Commerce Blvd")
          [] c = "city" -> StrV("Arlington")
          [] c = "state" -> StrV("VA")
          [] c = "postalCode" -> IntV(22201)
          [] c = "grossFloorArea" -> IntV(15000)
          [] OTHER -> NaN]

\* a Canadian row with an empty name and some of the defaulted cells empty
CanadianRow(i) ==
    [c \in ImportColumns |->
        CASE c = "primaryFunction" -> StrV("Call Center")
          [] c = "address1" -> StrV("1 Yonge Street")
          [] c = "city" -> StrV("Toronto")
          [] c = "state" -> StrV("ON")
          [] c = "postalCode" -> StrV("M5E 1W7")
          [] c = "country" -> StrV("CA")
          [] c = "grossFloorArea" -> IntV(100000)
          [] c = "gfaUnits" -> StrV("Square Meters")
          [] c = "occupancyPercentage" -> FloatV(0)
          [] c = "isInstitutionalProperty" -> BoolV(TRUE)
          [] OTHER -> NaN]

\* row i (1-based) of CSV file f: the three kinds of row in rotation
CsvRow(f, i) ==
    CASE (i + f) % 3 = 0 -> FullRow(i)
      [] (i + f) % 3 = 1 -> SparseRow(i)
      [] (i + f) % 3 = 2 -> CanadianRow(i)

\* the files import_from_csv is called on: unreadable, or n rows
CsvFiles ==
    { [readable |-> FALSE, rows |-> << >>] }
    \cup { [readable |-> TRUE, rows |-> [i \in 1..n |-> CsvRow(f, i)]] :
             f \in 0..2, n \in 0..MaxRows }

\* RemoveNaN that keeps every cell of the row
RemoveNaNKeepsAll(row) == row

\* property_data = {k: v for k, v in row.to_dict().items() if pd.notna(v)}
RemoveNaN(row) == [k \in {c \in DOMAIN row : NotNa(row[c])} |-> row[k]]

\* ------------------------------------------------------------------------
\* Outcomes of one HTTP call
\* ------------------------------------------------------------------------

\* requests.get / requests.post raised (connection error, timeout, ...)
TransportException == [kind |-> "raise", status |-> 0, body |-> "", id |-> 0]

\* a response: status code and payload; body is "id" (XML with an id element
\* holding an integer), "noid" (XML without an id element), "badid" (XML whose
\* id element is not an integer) or "garbage" (not XML)
Response(status, body, id) == [kind |-> "response", status |-> status, body |-> body, id |-> id]

\* what the account request can come back with
AccountOutcomes ==
    { TransportException,
      Response(200, "id", 42),
      Response(200, "noid", 0),
      Response(200, "badid", 0),
      Response(200, "garbage", 0),
      Response(401, "garbage", 0) }

\* what a property-creation POST can come back with
PostOutcomes ==
    { TransportException,
      Response(200, "id", 7001),
      Response(201, "noid", 0),
      Response(201, "badid", 0),
      Response(200, "garbage", 0),
      Response(204, "noid", 0),
      Response(400, "garbage", 0) }

\* ParseRaises for a parser that accepts any payload
ParseNeverRaises(resp) == FALSE

\* ET.fromstring(response.content) raises
ParseRaises(resp) == resp.body = "garbage"

\* int(elem.text) raises
IntRaises(resp) == resp.body = "badid"

\* get_account_id returning 0 instead of None from the except branch
get_account_id_zero(resp) ==
    IF resp.kind = "raise" THEN IntV(0)
    ELSE IF resp.status = 200
         THEN IF ParseRaises(resp) THEN IntV(0)
              ELSE IF resp.body = "noid" THEN None
              ELSE IF IntRaises(resp) THEN IntV(0)
              ELSE IntV(resp.id)
         ELSE None

\* get_account_id: the account id, or None
get_account_id(resp) ==
    IF resp.kind = "raise" THEN None
    ELSE IF resp.status = 200
         THEN IF ParseRaises(resp) THEN None
              ELSE IF resp.body = "noid" THEN None
              ELSE IF IntRaises(resp) THEN None
              ELSE IntV(resp.id)
         ELSE None

\* one entry of the results list
Result(status, name, id, message) ==
    [status |-> status, property_name |-> name, property_id |-> id, message |-> message]

\* IsCreated accepting every 2xx status
IsCreatedAny2xx(resp) == resp.status \in 200..299

\* response.status_code in [200, 201]
IsCreated(resp) == resp.status \in {200, 201}

\* the except branch of create_property
ExceptionResult(d, what) ==
    Result("error", Get(d, "name", None), None, "Exception: " \o what)

\* create_property: the result for property_data d when the POST came back
\* with resp
create_property(d, resp) ==
    IF resp.kind = "raise" THEN ExceptionResult(d, "transport")
    ELSE IF IsCreated(resp)
         THEN IF ParseRaises(resp) THEN ExceptionResult(d, "parse")
              ELSE IF IntRaises(resp) THEN ExceptionResult(d, "int")
              ELSE Result("success", Get(d, "name", None),
                          IF resp.body = "id" THEN IntV(resp.id) ELSE None,
                          "Property created successfully")
         ELSE Result("error", Get(d, "name", None), None,
                     "Error " \o IntToStr(resp.status) \o ": " \o resp.body)

\* ------------------------------------------------------------------------
\* import_from_csv
\* ------------------------------------------------------------------------

\* the caller invokes import_from_csv(csv_file_path)
ImportCall ==
    /\ pc = "idle"
    /\ \E file \in CsvFiles : csv_file' = file
    /\ pc' = "read_csv"
    /\ UNCHANGED <<property_data, xml_string, df, account_id, idx, results, requests,
                   responses, in_flight, sleeps, ret, table, validation_results>>

\* df = pd.read_csv(csv_file_path); on an exception return []
ReadCsv ==
    /\ pc = "read_csv"
    /\ IF csv_file.readable
       THEN /\ df' = csv_file.rows
            /\ pc' = "get_account"
            /\ ret' = ret
       ELSE /\ df' = df
            /\ ret' = << >>
            /\ pc' = "import_done"
    /\ UNCHANGED <<property_data, xml_string, csv_file, account_id, idx, results,
                   requests, responses, in_flight, sleeps, table, validation_results>>

\* get_account_id sends GET /account
SendAccountRequest ==
    /\ pc = "get_account"
    /\ requests' = Append(requests, [method |-> "GET", row |-> 0])
    /\ in_flight' = in_flight + 1
    /\ pc' = "account_wait"
    /\ UNCHANGED <<property_data, xml_string, csv_file, df, account_id, idx, results,
                   responses, sleeps, ret, table, validation_results>>

\* the account request comes back; if account_id is None return []
ReceiveAccount(resp) ==
    /\ pc = "account_wait"
    /\ responses' = Append(responses, resp)
    /\ in_flight' = in_flight - 1
    /\ account_id' = get_account_id(resp)
    /\ IF get_account_id(resp) = None
       THEN /\ ret' = << >>
            /\ pc' = "import_done"
            /\ UNCHANGED <<results, idx>>
       ELSE /\ results' = << >>
            /\ idx' = 0
            /\ pc' = "loop"
            /\ ret' = ret
    /\ UNCHANGED <<property_data, xml_string, csv_file, df, requests, sleeps, table,
                   validation_results>>

\* the loop body up to requests.post: drop the NaN cells, encode, send
SendPost ==
    /\ pc = "loop"
    /\ idx < Len(df)
    /\ property_data' = RemoveNaN(df[idx + 1])
    /\ xml_string' = create_property_xml(RemoveNaN(df[idx + 1]))
    /\ requests' = Append(requests, [method |-> "POST", row |-> idx + 1])
    /\ in_flight' = in_flight + 1
    /\ pc' = "posting"
    /\ UNCHANGED <<csv_file, df, account_id, idx, results, responses, sleeps, ret,
                   table, validation_results>>

\* AppendResult with the result inserted at the front of the list
AppendResultPrepends(rs, r) == << r >> \o rs

\* results.append(result)
AppendResult(rs, r) == Append(rs, r)

\* NeedsDelay that also delays after the last row
NeedsDelayAfterEveryRow(i, n) == i < n

\* if idx < len(df) - 1: the row at index i of n rows is followed by a delay
NeedsDelay(i, n) == i < n - 1

\* the POST comes back (or raises): create_property builds the result, the
\* loop appends it and either sleeps or moves on
ReceivePost(resp) ==
    /\ pc = "posting"
    /\ responses' = Append(responses, resp)
    /\ in_flight' = in_flight - 1
    /\ results' = AppendResult(results, create_property(property_data, resp))
    /\ IF NeedsDelay(idx, Len(df))
       THEN /\ pc' = "sleep"
            /\ idx' = idx
       ELSE /\ pc' = "loop"
            /\ idx' = idx + 1
    /\ UNCHANGED <<property_data, xml_string, csv_file, df, account_id, requests,
                   sleeps, ret, table, validation_results>>

\* time.sleep(delay_seconds), delay_seconds >= 0, then the next row
Sleep ==
    /\ pc = "sleep"
    /\ sleeps' = sleeps + 1
    /\ idx' = idx + 1
    /\ pc' = "loop"
    /\ UNCHANGED <<property_data, xml_string, csv_file, df, account_id, results,
                   requests, responses, in_flight, ret, table, validation_results>>

\* the loop is exhausted: return results
ImportReturn ==
    /\ pc = "loop"
    /\ idx >= Len(df)
    /\ ret' = results
    /\ pc' = "import_done"
    /\ UNCHANGED <<property_data, xml_string, csv_file, df, account_id, idx, results,
                   requests, responses, in_flight, sleeps, table, validation_results>>

\* ------------------------------------------------------------------------
\* validate_csv
\* ------------------------------------------------------------------------

\* required_fields, in the order of the list
required_fields ==
    <<"name", "primaryFunction", "address1", "city", "state", "postalCode",
      "country", "grossFloorArea", "constructionStatus">>

\* the set of the elements of a sequence
Range(seq) == {seq[i] : i \in 1..Len(seq)}

valid_property_types ==
    {"Office", "Bank Branch", "Financial Office", "K-12 School", "College/University",
     "Hospital (General Medical & Surgical)", "Medical Office", "Hotel", "Restaurant",
     "Non-Refrigerated Warehouse", "Distribution Center", "Data Center", "Retail Store",
     "Other"}

valid_statuses == {"Existing", "Project", "Design", "Construction", "Test"}

\* the required columns a generated table may lack
MissingCandidates == {"city", "primaryFunction", "constructionStatus"}

\* the cells a generated table draws for primaryFunction
PrimaryFunctionCells == {StrV("Office"), StrV("Call Center"), NaN}

\* the cells a generated table draws for constructionStatus
ConstructionStatusCells == {StrV("Existing"), StrV("Unknown"), StrV("Bogus"), NaN}

\* a table row over the columns cols
TableRow(cols, pf, cs) ==
    [c \in cols |->
        CASE c = "primaryFunction" -> pf
          [] c = "constructionStatus" -> cs
          [] c = "grossFloorArea" -> IntV(50000)
          [] OTHER -> StrV("x")]

TableRows(cols) ==
    {TableRow(cols, pf, cs) : pf \in PrimaryFunctionCells, cs \in ConstructionStatusCells}

\* the files validate_csv is called on: unreadable, or a header and rows
Tables ==
    { [readable |-> FALSE, columns |-> {}, rows |-> << >>] }
    \cup UNION { UNION { { [readable |-> TRUE, columns |-> Range(required_fields) \ m, rows |-> r] :
                           r \in [1..n -> TableRows(Range(required_fields) \ m)] } :
                         n \in 0..MaxTableRows } :
                 m \in SUBSET MissingCandidates }

\* one entry of the errors or warnings list: the kind of message, the names
\* or values it lists (joined with ', ' in the text) and the count it states
Entry(kind, items, count) == [kind |-> kind, items |-> items, count |-> count]

\* the report of the except branch
ReadErrorReport ==
    [valid |-> FALSE, total_rows |-> 0,
     errors |-> << Entry("Error reading CSV", << >>, 0) >>, warnings |-> << >>]

\* InitialReport counting the header line as a row
InitialReportCountsHeader(t) ==
    [valid |-> TRUE, total_rows |-> Len(t.rows) + 1, errors |-> << >>, warnings |-> << >>]

\* validation_results as first assigned
InitialReport(t) ==
    [valid |-> TRUE, total_rows |-> Len(t.rows), errors |-> << >>, warnings |-> << >>]

\* the report before validate_csv has been called
NoReport == [valid |-> TRUE, total_rows |-> 0, errors |-> << >>, warnings |-> << >>]

\* [col for col in required_fields if col not in df.columns]
missing_columns(t) == SelectSeq(required_fields, LAMBDA c : c \notin t.columns)

\* AddError that leaves valid as it was
AddErrorKeepsValid(report, e) ==
    [report EXCEPT !.errors = Append(@, e)]

\* report with valid = False and one more error
AddError(report, e) ==
    [report EXCEPT !.valid = FALSE, !.errors = Append(@, e)]

\* report with one more warning
AddWarning(report, w) ==
    [report EXCEPT !.warnings = Append(@, w)]

\* CheckColumnsReport naming only the first missing column
CheckColumnsReportFirstOnly(t, report) ==
    IF missing_columns(t) /= << >>
    THEN AddError(report, Entry("Missing required columns", << missing_columns(t)[1] >>, 0))
    ELSE report

\* the required-columns check
CheckColumnsReport(t, report) ==
    IF missing_columns(t) /= << >>
    THEN AddError(report, Entry("Missing required columns", missing_columns(t), 0))
    ELSE report

\* df[col].isna().sum()
empty_count(t, col) == Cardinality({i \in 1..Len(t.rows) : ~NotNa(t.rows[i][col])})

\* the empty-required-fields check for required_fields[k..]
RECURSIVE CheckEmptyFrom(_, _, _)
CheckEmptyFrom(t, report, k) ==
    IF k > Len(required_fields) THEN report
    ELSE IF required_fields[k] \in t.columns /\ empty_count(t, required_fields[k]) > 0
         THEN CheckEmptyFrom(t,
                  AddError(report, Entry("empty values", << required_fields[k] >>,
                                         empty_count(t, required_fields[k]))),
                  k + 1)
         ELSE CheckEmptyFrom(t, report, k + 1)

CheckEmptyReport(t, report) == CheckEmptyFrom(t, report, 1)

\* Series.isin(values), for one cell
IsIn(v, values) == v.t = "str" /\ v.s \in values

\* Series.unique(): the distinct values in order of first appearance
RECURSIVE Unique(_)
Unique(seq) ==
    IF seq = << >> THEN << >>
    ELSE LET front == Unique(SubSeq(seq, 1, Len(seq) - 1))
             last == seq[Len(seq)]
         IN IF last \in Range(front) THEN front ELSE Append(front, last)

\* df[~df[col].isin(values)][col].unique(), each value through str()
Offending(t, col, values) ==
    LET column == [i \in 1..Len(t.rows) |-> t.rows[i][col]]
        outside == SelectSeq(column, LAMBDA v : ~IsIn(v, values))
        distinct == Unique(outside)
    IN [i \in 1..Len(distinct) |-> Str(distinct[i])]

\* CheckTypesReport reporting an error instead of a warning
CheckTypesReportAsError(t, report) ==
    IF "primaryFunction" \in t.columns
       /\ Len(Offending(t, "primaryFunction", valid_property_types)) > 0
    THEN AddError(report, Entry("Unknown property types (may be valid)",
                                Offending(t, "primaryFunction", valid_property_types), 0))
    ELSE report

\* the property-type check
CheckTypesReport(t, report) ==
    IF "primaryFunction" \in t.columns
       /\ Len(Offending(t, "primaryFunction", valid_property_types)) > 0
    THEN AddWarning(report, Entry("Unknown property types (may be valid)",
                                  Offending(t, "primaryFunction", valid_property_types), 0))
    ELSE report

\* CheckStatusReport reporting a warning instead of an error
CheckStatusReportAsWarning(t, report) ==
    IF "constructionStatus" \in t.columns
       /\ Len(Offending(t, "constructionStatus", valid_statuses)) > 0
    THEN AddWarning(report, Entry("Invalid construction status values",
                                  Offending(t, "constructionStatus", valid_statuses), 0))
    ELSE report

\* the construction-status check
CheckStatusReport(t, report) ==
    IF "constructionStatus" \in t.columns
       /\ Len(Offending(t, "constructionStatus", valid_statuses)) > 0
    THEN AddError(report, Entry("Invalid construction status values",
                                Offending(t, "constructionStatus", valid_statuses), 0))
    ELSE report

\* the caller invokes validate_csv(csv_file)
ValidateCall ==
    /\ pc = "idle"
    /\ \E t \in Tables : table' = t
    /\ pc' = "v_read"
    /\ UNCHANGED <<validation_results, encoderVars, importVars>>

\* df = pd.read_csv(csv_file), then the fresh report; on an exception the
\* except branch returns its report
ValidateRead ==
    /\ pc = "v_read"
    /\ IF table.readable
       THEN /\ validation_results' = InitialReport(table)
            /\ pc' = "v_columns"
       ELSE /\ validation_results' = ReadErrorReport
            /\ pc' = "validate_done"
    /\ UNCHANGED <<table, encoderVars, importVars>>

CheckColumns ==
    /\ pc = "v_columns"
    /\ validation_results' = CheckColumnsReport(table, validation_results)
    /\ pc' = "v_empty"
    /\ UNCHANGED <<table, encoderVars, importVars>>

CheckEmpty ==
    /\ pc = "v_empty"
    /\ validation_results' = CheckEmptyReport(table, validation_results)
    /\ pc' = "v_types"
    /\ UNCHANGED <<table, encoderVars, importVars>>

CheckTypes ==
    /\ pc = "v_types"
    /\ validation_results' = CheckTypesReport(table, validation_results)
    /\ pc' = "v_status"
    /\ UNCHANGED <<table, encoderVars, importVars>>

CheckStatus ==
    /\ pc = "v_status"
    /\ validation_results' = CheckStatusReport(table, validation_results)
    /\ pc' = "v_print"
    /\ UNCHANGED <<table, encoderVars, importVars>>

\* the report is printed and returned
ValidateReturn ==
    /\ pc = "v_print"
    /\ pc' = "validate_done"
    /\ UNCHANGED <<table, validation_results, encoderVars, importVars>>

\* ------------------------------------------------------------------------
\* create_property_xml called directly
\* ------------------------------------------------------------------------

\* the required fields of a record, all present
RequiredRecord ==
    [c \in {"name", "primaryFunction", "address1", "city", "state", "postalCode",
            "grossFloorArea"} |->
        CASE c = "name" -> StrV("Main Office Building")
          [] c = "primaryFunction" -> StrV("Office")
          [] c = "address1" -> StrV("123 Main Street")
          [] c = "city" -> StrV("Washington")
          [] c = "state" -> StrV("DC")
          [] c = "postalCode" -> StrV("20001")
          [] c = "grossFloorArea" -> IntV(50000)]

\* the required part of a generated record: complete, without a name, or empty
RequiredParts ==
    { RequiredRecord,
      [c \in (DOMAIN RequiredRecord) \ {"name"} |-> RequiredRecord[c]],
      EmptyDict }

CountryValues == {Absent, StrV("US"), StrV("CA"), StrV("MX")}

StatusValues == {Absent, StrV("Test")}

TemporaryValues == {Absent, StrV("True"), BoolV(TRUE)}

FederalValues == {Absent, BoolV(TRUE)}

InstitutionalValues ==
    {Absent, StrV("true"), StrV("Yes"), StrV("false"), StrV(""), BoolV(TRUE),
     BoolV(FALSE), IntV(1)}

OccupancyValues == {Absent, IntV(0), IntV(85)}

\* the optional fields of a generated record: none, or all of them
OptionalParts ==
    { EmptyDict,
      [c \in {"address2", "yearBuilt", "notes"} |->
          CASE c = "address2" -> StrV("Suite 100")
            [] c = "yearBuilt" -> IntV(2005)
            [] c = "notes" -> StrV("Headquarters building")] }

\* the union of two dicts with disjoint keys
Merge(a, b) == [k \in (DOMAIN a) \cup (DOMAIN b) |-> IF k \in DOMAIN a THEN a[k] ELSE b[k]]

\* the records create_property_xml is called on
Records ==
    { Opt(Opt(Opt(Opt(Opt(Opt(Opt(Merge(req, opt),
          "country", co), "constructionStatus", cs), "gfaUnits", cs),
          "gfaTemporary", tm), "isFederalProperty", fe),
          "isInstitutionalProperty", ins), "occupancyPercentage", oc) :
        req \in RequiredParts, opt \in OptionalParts, co \in CountryValues,
        cs \in StatusValues, tm \in TemporaryValues, fe \in FederalValues,
        ins \in InstitutionalValues, oc \in OccupancyValues }

\* the caller invokes create_property_xml(property_data)
EncodeCall ==
    /\ pc = "idle"
    /\ \E d \in Records : property_data' = d
    /\ pc' = "encode"
    /\ UNCHANGED <<xml_string, importVars, validateVars>>

\* create_property_xml returns the document
EncodeReturn ==
    /\ pc = "encode"
    /\ xml_string' = create_property_xml(property_data)
    /\ pc' = "encode_done"
    /\ UNCHANGED <<property_data, importVars, validateVars>>

\* ------------------------------------------------------------------------
\* Specification
\* ------------------------------------------------------------------------

\* the state after construction: no call made yet
Init ==
    /\ pc = "idle"
    /\ property_data = EmptyDict
    /\ xml_string = NoDocument
    /\ csv_file = [readable |-> FALSE, rows |-> << >>]
    /\ df = << >>
    /\ account_id = None
    /\ idx = 0
    /\ results = << >>
    /\ requests = << >>
    /\ responses = << >>
    /\ in_flight = 0
    /\ sleeps = 0
    /\ ret = << >>
    /\ table = [readable |-> FALSE, columns |-> {}, rows |-> << >>]
    /\ validation_results = NoReport

Next ==
    \/ ImportCall
    \/ ReadCsv
    \/ SendAccountRequest
    \/ \E resp \in AccountOutcomes : ReceiveAccount(resp)
    \/ SendPost
    \/ \E resp \in PostOutcomes : ReceivePost(resp)
    \/ Sleep
    \/ ImportReturn
    \/ ValidateCall
    \/ ValidateRead
    \/ CheckColumns
    \/ CheckEmpty
    \/ CheckTypes
    \/ CheckStatus
    \/ ValidateReturn
    \/ EncodeCall
    \/ EncodeReturn

Spec == Init /\ [][Next]_vars

\* ------------------------------------------------------------------------
\* Properties of import_from_csv
\* ------------------------------------------------------------------------

\* the name create_property reports for a CSV row: the cell, or None if empty
NameOfRow(row) == IF NotNa(row["name"]) THEN row["name"] ELSE None

\* the import got past read_csv and get_account_id
BatchStarted == csv_file.readable /\ account_id /= None

\* the response to the POST of row i (request 1 is the account request)
ResponseOfRow(i) == responses[i + 1]

\* C1: once the CSV is read and the account id obtained, the batch runs to
\* its end whatever each row's call comes back with: inside the loop there is
\* always a next step and results holds one result per row processed so far,
\* and the list returned has exactly one result per input row, the i-th
\* result being that of the i-th row.
C1_OneResultPerRow ==
    /\ pc \in {"loop", "posting", "sleep"} =>
          /\ BatchStarted
          /\ ENABLED Next
          /\ Len(results) = (IF pc = "sleep" THEN idx + 1 ELSE idx)
          /\ \A i \in 1..Len(results) : results[i].property_name = NameOfRow(df[i])
    /\ (pc = "import_done" /\ BatchStarted) =>
          /\ Len(ret) = Len(df)
          /\ \A i \in 1..Len(df) :
                /\ ret[i].property_name = NameOfRow(df[i])
                /\ ret[i].status \in {"success", "error"}

\* C1 witness: a batch of three rows has returned, one row's call raised,
\* one came back non-2xx, one came back unparsable and so on in any mix that
\* includes a success and an error
C1_Witness ==
    /\ pc = "import_done" /\ BatchStarted
    /\ Len(ret) >= 3
    /\ \E i, j, k \in 1..Len(ret) :
          /\ ResponseOfRow(i).kind = "raise"
          /\ ResponseOfRow(j).kind = "response" /\ ResponseOfRow(j).status = 400
          /\ ret[k].status = "success"

\* the processing of row i's call raised: the transport, the XML parser or
\* the integer conversion of the id
RowRaised(resp) ==
    \/ resp.kind = "raise"
    \/ resp.kind = "response" /\ resp.status \in {200, 201}
       /\ resp.body \in {"garbage", "badid"}

\* C2 as stated: result i is an error exactly when row i's call came back
\* with a non-2xx status or raised.
C2_Original ==
    \A i \in 1..Len(results) :
        (results[i].status = "error") <=>
            \/ RowRaised(ResponseOfRow(i))
            \/ ResponseOfRow(i).kind = "response" /\ ResponseOfRow(i).status \notin 200..299

\* C2 amended: result i is an error exactly when row i's own call came back
\* with a status other than 200 or 201 or raised, whatever happened to the
\* other rows; every row is submitted, in order, and the batch returns one
\* result per row.
C2_ErrorIsPerRow ==
    /\ \A i \in 1..Len(results) :
          (results[i].status = "error") <=>
              \/ RowRaised(ResponseOfRow(i))
              \/ ResponseOfRow(i).kind = "response" /\ ResponseOfRow(i).status \notin {200, 201}
    /\ (pc = "import_done" /\ BatchStarted) =>
          /\ Len(requests) = Len(df) + 1
          /\ \A i \in 1..Len(df) : requests[i + 1] = [method |-> "POST", row |-> i]
          /\ Len(ret) = Len(df)

\* C2 witness: three rows, the second one's call fails, the others succeed
C2_Witness ==
    /\ pc = "import_done" /\ BatchStarted
    /\ Len(ret) = 3
    /\ ResponseOfRow(2).kind = "response" /\ ResponseOfRow(2).status = 400
    /\ ret[1].status = "success" /\ ret[2].status = "error" /\ ret[3].status = "success"

\* some request issued so far is a property-creation POST
PostIssued == \E i \in 1..Len(requests) : requests[i].method = "POST"

\* the account request came back 200 with an id element holding an integer
AccountRetrieved ==
    /\ Len(responses) >= 1
    /\ responses[1].kind = "response"
    /\ responses[1].status = 200
    /\ responses[1].body = "id"

\* C3: when the CSV cannot be read or the account id cannot be retrieved
\* (exception, non-200, missing or unusable id element), import_from_csv
\* returns the empty list and no property-creation POST is ever issued.
C3_InputErrorsAbort ==
    /\ PostIssued => (csv_file.readable /\ AccountRetrieved)
    /\ (pc \in {"account_wait", "loop", "posting", "sleep"}) => csv_file.readable
    /\ (pc \in {"loop", "posting", "sleep"}) => AccountRetrieved
    /\ (pc = "import_done" /\ ~(csv_file.readable /\ AccountRetrieved)) =>
          (ret = << >> /\ ~PostIssued)

\* C3 witness: a readable CSV with rows, the account request raised, and
\* the import has returned
C3_Witness ==
    /\ pc = "import_done"
    /\ csv_file.readable /\ Len(df) >= 1
    /\ Len(responses) = 1 /\ responses[1].kind = "raise"
    /\ ret = << >>

\* ------------------------------------------------------------------------
\* Properties of validate_csv
\* ------------------------------------------------------------------------

\* the required columns the table's header lacks
MissingSet == Range(required_fields) \ table.columns

\* the entries of a list that are of one kind
OfKind(entries, kind) == SelectSeq(entries, LAMBDA e : e.kind = kind)

\* the cells of a column of the table
CellsOf(col) == {table.rows[i][col] : i \in 1..Len(table.rows)}

\* the cells of constructionStatus outside the closed set (an empty cell is
\* outside it), as the message writes them
BadStatuses ==
    {Str(v) : v \in {c \in CellsOf("constructionStatus") :
                        ~(c.t = "str" /\ c.s \in valid_statuses)}}

\* the cells of primaryFunction outside the reference set, as written
UnknownTypes ==
    {Str(v) : v \in {c \in CellsOf("primaryFunction") :
                        ~(c.t = "str" /\ c.s \in valid_property_types)}}

\* validate_csv has passed the required-columns check of a table it could read
ColumnsChecked ==
    table.readable /\ pc \in {"v_empty", "v_types", "v_status", "v_print", "validate_done"}

\* C4: a table whose header lacks required columns is reported invalid with
\* exactly one missing-columns entry, which names all the missing columns
\* together, and no empty-values entry names a missing column.
C4_MissingColumnsOnce ==
    (ColumnsChecked /\ MissingSet /= {}) =>
        /\ validation_results.valid = FALSE
        /\ Len(OfKind(validation_results.errors, "Missing required columns")) = 1
        /\ Range(OfKind(validation_results.errors, "Missing required columns")[1].items)
              = MissingSet
        /\ \A i \in 1..Len(validation_results.errors) :
              validation_results.errors[i].kind = "empty values" =>
                 Range(validation_results.errors[i].items) \cap MissingSet = {}

\* C4 witness: two required columns are missing, another required column has
\* an empty cell, and the report has been returned
C4_Witness ==
    /\ pc = "validate_done" /\ table.readable
    /\ MissingSet = {"city", "constructionStatus"}
    /\ Len(table.rows) >= 1
    /\ Len(OfKind(validation_results.errors, "empty values")) = 1

\* C5: when the constructionStatus column holds a value outside the closed
\* set the report is invalid and one error entry lists each distinct
\* offending value; when every value is inside the set no such entry exists.
C5_StatusIsAnError ==
    (pc \in {"v_print", "validate_done"} /\ table.readable
     /\ "constructionStatus" \in table.columns) =>
        LET found == OfKind(validation_results.errors, "Invalid construction status values")
        IN IF BadStatuses /= {}
           THEN /\ validation_results.valid = FALSE
                /\ Len(found) = 1
                /\ Range(found[1].items) = BadStatuses
                /\ Len(found[1].items) = Cardinality(BadStatuses)
           ELSE Len(found) = 0

\* C5 witness: the column holds Unknown and Bogus, the report lists both
C5_Witness ==
    /\ pc = "validate_done" /\ table.readable
    /\ "constructionStatus" \in table.columns
    /\ BadStatuses = {"Unknown", "Bogus"}
    /\ validation_results.valid = FALSE

\* the table has no problem other than (possibly) unlisted property types
OnlyTypesUnknown ==
    /\ table.readable
    /\ MissingSet = {}
    /\ \A c \in table.columns : \A v \in CellsOf(c) : NotNa(v)
    /\ BadStatuses = {}

\* what the property-type check may do to the report
TypesStepOnlyWarns ==
    pc = "v_types" =>
        /\ validation_results'.errors = validation_results.errors
        /\ validation_results'.valid = validation_results.valid
        /\ validation_results'.total_rows = validation_results.total_rows
        /\ IF "primaryFunction" \in table.columns /\ UnknownTypes /= {}
           THEN /\ Len(validation_results'.warnings) = Len(validation_results.warnings) + 1
                /\ Range(validation_results'.warnings[Len(validation_results'.warnings)].items)
                      = UnknownTypes
           ELSE validation_results'.warnings = validation_results.warnings

\* C6: the property-type check appends one warning when a primaryFunction
\* value is outside the reference set, never appends an error and never
\* changes valid; a table whose only problem is an unlisted primaryFunction
\* is reported valid with no error.
C6_TypesOnlyWarn ==
    /\ [][TypesStepOnlyWarns]_vars
    /\ []((pc = "validate_done" /\ OnlyTypesUnknown) =>
             (validation_results.valid = TRUE /\ validation_results.errors = << >>))

\* C6 witness: the only problem of the table is the type Call Center; the
\* report returned has one warning
C6_Witness ==
    /\ pc = "validate_done" /\ OnlyTypesUnknown
    /\ UnknownTypes = {"Call Center"}
    /\ Len(validation_results.warnings) = 1
    /\ validation_results.valid = TRUE

\* C7: in every report, valid is True exactly when the errors list is empty,
\* on the read-failure path too; warnings do not enter into it.
C7_ValidIffNoErrors ==
    validation_results.valid = (validation_results.errors = << >>)

\* C7 witness: the file could not be read and the report has been returned
C7_Witness ==
    /\ pc = "validate_done"
    /\ ~table.readable
    /\ validation_results.errors /= << >>

\* C8: a readable file with zero data rows is reported with total_rows = 0,
\* and is valid with no errors unless required columns are missing.
C8_EmptyFileValid ==
    (pc = "validate_done" /\ table.readable /\ Len(table.rows) = 0) =>
        /\ validation_results.total_rows = 0
        /\ IF MissingSet = {}
           THEN validation_results.valid = TRUE /\ validation_results.errors = << >>
           ELSE validation_results.valid = FALSE

\* C8 witness: the header has the nine required columns and no row follows
C8_Witness ==
    /\ pc = "validate_done" /\ table.readable
    /\ Len(table.rows) = 0
    /\ MissingSet = {}
    /\ validation_results.valid = TRUE

\* ------------------------------------------------------------------------
\* Properties of create_property_xml
\* ------------------------------------------------------------------------

\* xml_string is the document create_property_xml returned for property_data
Encoded == pc \in {"encode_done", "posting"}

\* the children of the root element with a given tag
ChildrenTagged(doc, tag) == SelectSeq(doc.root.children, LAMBDA e : e.tag = tag)

\* the values an element carries for an attribute name
AttrValues(e, name) == {e.attrs[i][2] : i \in {j \in 1..Len(e.attrs) : e.attrs[j][1] = name}}

\* the document has exactly one child with this tag, and its text is text
OneChildWithText(doc, tag, text) ==
    /\ Len(ChildrenTagged(doc, tag)) = 1
    /\ ChildrenTagged(doc, tag)[1].text = text

\* the document has exactly one child with this tag, and it carries exactly
\* the value val for the attribute name
OneChildWithAttr(doc, tag, name, val) ==
    /\ Len(ChildrenTagged(doc, tag)) = 1
    /\ AttrValues(ChildrenTagged(doc, tag)[1], name) = {val}

\* the document carries the contract's default for field f
DefaultEmitted(doc, f) ==
    CASE f = "constructionStatus" -> OneChildWithText(doc, "constructionStatus", "Existing")
      [] f = "country" -> OneChildWithAttr(doc, "address", "country", "US")
      [] f = "gfaUnits" -> OneChildWithAttr(doc, "grossFloorArea", "units", "Square Feet")
      [] f = "gfaTemporary" -> OneChildWithAttr(doc, "grossFloorArea", "temporary", "false")
      [] f = "isFederalProperty" -> OneChildWithText(doc, "isFederalProperty", "false")

\* the fields the contract requires and does not default
RequiredNoDefault ==
    {"name", "primaryFunction", "address1", "city", "state", "postalCode", "grossFloorArea"}

\* C9: a default-eligible field the record omits is emitted with its default
\* (constructionStatus Existing, country US, units Square Feet, temporary
\* false, isFederalProperty false), so a record omitting all of them carries
\* exactly the five defaults; inside import_from_csv the same holds for a
\* row whose cell for the field is empty.
C9_DefaultsEmitted ==
    /\ Encoded =>
          \A f \in DefaultEligible :
              f \notin DOMAIN property_data => DefaultEmitted(xml_string, f)
    /\ pc = "posting" =>
          \A f \in DefaultEligible :
              ~NotNa(df[idx + 1][f]) => DefaultEmitted(xml_string, f)

\* C9 witness: import_from_csv has encoded and sent a row that has every
\* required cell filled and every default-eligible cell empty
C9_Witness ==
    /\ pc = "posting"
    /\ \A f \in DefaultEligible : ~NotNa(df[idx + 1][f])
    /\ \A f \in RequiredNoDefault : NotNa(df[idx + 1][f])
    /\ RequiredNoDefault \subseteq DOMAIN property_data
    /\ DefaultEligible \cap DOMAIN property_data = {}

\* an element with this tag occurs in the document, at any depth the encoder
\* builds (the root's children and their children)
HasElement(doc, tag) ==
    \E i \in 1..Len(doc.root.children) :
        \/ doc.root.children[i].tag = tag
        \/ \E j \in 1..Len(doc.root.children[i].children) :
              doc.root.children[i].children[j].tag = tag

\* C10: for a record whose country is not CA (a record without a country
\* counts as US) the document has no isInstitutionalProperty element,
\* whatever isInstitutionalProperty value is supplied.
C10_NoInstitutionalOutsideCanada ==
    (Encoded /\ Get(property_data, "country", StrV("US")) /= StrV("CA")) =>
        ~HasElement(xml_string, "isInstitutionalProperty")

\* C10 witness: a record for Mexico with a truthy isInstitutionalProperty
\* has been encoded
C10_Witness ==
    /\ pc = "encode_done"
    /\ "country" \in DOMAIN property_data /\ property_data["country"] = StrV("MX")
    /\ "isInstitutionalProperty" \in DOMAIN property_data
    /\ Truthy(property_data["isInstitutionalProperty"])

\* the record is Canadian and supplies a truthy isInstitutionalProperty
CanadianWithFlag ==
    /\ "country" \in DOMAIN property_data /\ property_data["country"] = StrV("CA")
    /\ "isInstitutionalProperty" \in DOMAIN property_data
    /\ Truthy(property_data["isInstitutionalProperty"])

\* the values that spell the boolean true: True, or "true" in any letter case
SpellsTrue(v) == v \in {BoolV(TRUE), StrV("true"), StrV("True"), StrV("TRUE")}

\* C11 as stated: for a Canadian record with a truthy isInstitutionalProperty
\* the document has an isInstitutionalProperty element whose value is "true".
C11_Original ==
    (Encoded /\ CanadianWithFlag) =>
        OneChildWithText(xml_string, "isInstitutionalProperty", "true")

\* C11 amended: for a Canadian record with a truthy isInstitutionalProperty
\* the document has exactly one isInstitutionalProperty element, never empty;
\* its value is "true" exactly when the value supplied is the boolean True
\* or a string spelling true, and otherwise the lower-cased text of the value.
C11_InstitutionalEmitted ==
    (Encoded /\ CanadianWithFlag) =>
        /\ Len(ChildrenTagged(xml_string, "isInstitutionalProperty")) = 1
        /\ ChildrenTagged(xml_string, "isInstitutionalProperty")[1].text /= ""
        /\ (ChildrenTagged(xml_string, "isInstitutionalProperty")[1].text = "true")
              <=> SpellsTrue(property_data["isInstitutionalProperty"])
        /\ property_data["isInstitutionalProperty"] = StrV("false") =>
              ChildrenTagged(xml_string, "isInstitutionalProperty")[1].text = "false"
        /\ property_data["isInstitutionalProperty"] = StrV("Yes") =>
              ChildrenTagged(xml_string, "isInstitutionalProperty")[1].text = "yes"
        /\ property_data["isInstitutionalProperty"] = IntV(1) =>
              ChildrenTagged(xml_string, "isInstitutionalProperty")[1].text = "1"

\* C11 witness: a Canadian record with the boolean True has been encoded
C11_Witness ==
    /\ pc = "encode_done"
    /\ CanadianWithFlag
    /\ property_data["isInstitutionalProperty"] = BoolV(TRUE)
    /\ OneChildWithText(xml_string, "isInstitutionalProperty", "true")

\* the fields the contract does not default
NotDefaulted == ImportColumns \ DefaultEligible

\* the fields carried as attributes of the address element
AddressFields == {"address1", "address2", "city", "state", "postalCode"}

\* the document carries field f as an empty element or an empty attribute
EmittedEmpty(doc, f) ==
    IF f \in AddressFields
    THEN \E i \in 1..Len(ChildrenTagged(doc, "address")) :
            "" \in AttrValues(ChildrenTagged(doc, "address")[i], f)
    ELSE IF f = "grossFloorArea"
    THEN \E i \in 1..Len(ChildrenTagged(doc, "grossFloorArea")) :
            \E j \in 1..Len(ChildrenTagged(doc, "grossFloorArea")[i].children) :
                /\ ChildrenTagged(doc, "grossFloorArea")[i].children[j].tag = "value"
                /\ ChildrenTagged(doc, "grossFloorArea")[i].children[j].text = ""
    ELSE \E i \in 1..Len(ChildrenTagged(doc, f)) : ChildrenTagged(doc, f)[i].text = ""

\* C12: a field that is absent from the record (or empty in the CSV row) and
\* that the contract does not default is never emitted as an empty element
\* or an empty attribute; in particular not name, address1, city, state,
\* postalCode or grossFloorArea.
C12_NoEmptyEmission ==
    /\ Encoded =>
          \A f \in NotDefaulted :
              f \notin DOMAIN property_data => ~EmittedEmpty(xml_string, f)
    /\ pc = "posting" =>
          \A f \in NotDefaulted :
              ~NotNa(df[idx + 1][f]) => ~EmittedEmpty(xml_string, f)

\* the optional fields emitted as an element of their own
OptionalElements == {"yearBuilt", "occupancyPercentage", "notes"}

\* the record has field f with a non-empty value (0 is a value)
PresentNonEmpty(d, f) ==
    /\ f \in DOMAIN d
    /\ NotNa(d[f])
    /\ d[f] /= StrV("")

\* C13: each optional element (yearBuilt, occupancyPercentage, notes) is
\* emitted, once, exactly when the record has the field with a non-empty
\* value, for every value of the field's range, occupancyPercentage = 0
\* included; it is omitted when the field is absent.
C13_OptionalEmittedWhenPresent ==
    Encoded =>
        \A f \in OptionalElements :
            IF PresentNonEmpty(property_data, f)
            THEN Len(ChildrenTagged(xml_string, f)) = 1
            ELSE Len(ChildrenTagged(xml_string, f)) = 0

\* ------------------------------------------------------------------------
\* Scheduling of the requests of import_from_csv
\* ------------------------------------------------------------------------

\* the number of property-creation POSTs issued so far
PostsIssued == Cardinality({i \in 1..Len(requests) : requests[i].method = "POST"})

\* C14: the submissions are strictly sequential with one delay between
\* them: the account request is the first request and every POST comes
\* after it, in row order; the POST of a row is issued only when the results
\* of all earlier rows are appended and one delay per earlier row has
\* elapsed; at most one call is in flight, and none outside a call; a batch
\* of n >= 1 rows makes exactly n - 1 delays, none after the last row.
C14_SequentialWithDelay ==
    /\ in_flight \in {0, 1}
    /\ in_flight = 1 <=> pc \in {"account_wait", "posting"}
    /\ Len(responses) = Len(requests) - in_flight
    /\ \A i \in 1..Len(requests) :
          IF i = 1 THEN requests[i].method = "GET"
          ELSE requests[i] = [method |-> "POST", row |-> i - 1]
    /\ pc = "posting" =>
          /\ PostsIssued = idx + 1
          /\ Len(results) = idx
          /\ sleeps = idx
    /\ pc = "sleep" => (Len(results) = idx + 1 /\ sleeps = idx /\ idx + 1 < Len(df))
    /\ (pc = "import_done" /\ BatchStarted) =>
          /\ PostsIssued = Len(df)
          /\ sleeps = (IF Len(df) >= 1 THEN Len(df) - 1 ELSE 0)

\* C14 witness: a batch of three rows has returned after three POSTs and
\* two delays
C14_Witness ==
    /\ pc = "import_done" /\ BatchStarted
    /\ Len(df) = 3
    /\ PostsIssued = 3
    /\ sleeps = 2

\* ------------------------------------------------------------------------
\* Properties of the results of create_property
\* ------------------------------------------------------------------------

====
